---- MODULE Spec2Model ----
(***************************************************************************)
(* EpochFS (Xuanwo/epochfs): the content addressed chunk store, the file   *)
(* handle (write / sink / commit / read), the namespace index and the      *)
(* checkpoint commit / load protocol of src/src/fs.rs and src/src/file.rs. *)
(*                                                                         *)
(* Units.  A data byte of the model stands for one MiB block of file data, *)
(* so DEFAULT_CHUNK_SIZE is 8.  A byte of an encoded record is one token   *)
(* of its protobuf encoding (a tag, a length prefix, or one length         *)
(* delimited string), and the 8 MiB files-blob threshold of Fs::commit is  *)
(* 8 tokens.                                                               *)
(***************************************************************************)
EXTENDS Integers, Sequences, FiniteSets, TLC

\* ------------------------------------------------------------------ bounds
MaxHandles == 2        \* File handles handed out in one run
MaxChunks == 3         \* chunk ids all handles hold together
MaxCommits == 2        \* checkpoints written in one run
MaxFrags == 3          \* fragments of one sink stream
MaxFragLen == 9        \* length of one fragment of a sink stream

\* ------------------------------------------------------- program constants
DEFAULT_CHUNK_SIZE == 8
FILES_BLOB_THRESHOLD == 8

FsIds == {1, 2}                      \* Fs instances sharing one Operator
Paths == {"", "a"}                   \* file paths offered by the callers
ByteValues == {6, 7}

\* ------------------------------------------------------------------- bytes
\* One octet (a data byte, a protobuf tag or a length prefix).
U(n) == <<"u", n>>

\* vec![v; n]
Vec(v, n) == [i \in 1..n |-> U(v)]

RECURSIVE Flatten(_)
\* Buffer::from_iter(bufs.into_iter().flatten())
Flatten(bufs) ==
    IF bufs = <<>> THEN <<>> ELSE Head(bufs) \o Flatten(Tail(bufs))

Drop(bs, n) == SubSeq(bs, n + 1, Len(bs))
Take(bs, n) == SubSeq(bs, 1, n)

\* -------------------------------------------------------------- chunk ids
\* blake3 + base64: a deterministic, collision free digest of the content.
\* The id is an opaque value; nothing in the model inverts it.
chunk_id(bs) == <<"blake3", bs>>

\* the chunk id left out of the object path
chunk_path_flat(id) == <<"data", <<"blake3", <<>>>>>>

\* format!("{}/{}", &self.data_path, chunk_id)
chunk_path(id) == <<"data", id>>
checkpoint_path(name) == <<"logs", name>>

\* --------------------------------------------------------- wire encodings
\* prost (proto3) encodings of the records of specs/epochfs.proto:
\*   FileChunks { repeated string ids = 1; }
\*   File       { string path = 1; FileChunks chunks = 2; }
\*   Files      { repeated File files = 1; }
\*   Checkpoint { FileChunks chunks = 1; }
\* A string field is a tag followed by one string token; an embedded message
\* is a tag, a length prefix and the message's tokens.  A string field holding
\* the default value "" is not emitted; an absent message field decodes to
\* None.
Some(ids) == [some |-> TRUE, ids |-> ids]
None == [some |-> FALSE, ids |-> <<>>]
unwrap_or_default(opt) == IF opt.some THEN opt.ids ELSE <<>>

EncodeFileChunks(ids) ==
    Flatten([i \in 1..Len(ids) |-> <<U(1), <<"id", ids[i]>>>>])

RECURSIVE DecodeFileChunks(_)
DecodeFileChunks(bs) ==
    IF Len(bs) < 2 THEN <<>>
    ELSE IF bs[1] = U(1) THEN <<bs[2][2]>> \o DecodeFileChunks(Drop(bs, 2))
    ELSE DecodeFileChunks(Drop(bs, 2))

EncodeFile(file) ==
    (IF file.path = "" THEN <<>> ELSE <<U(1), <<"path", file.path>>>>)
    \o (IF file.chunks.some
        THEN LET fc == EncodeFileChunks(file.chunks.ids)
             IN <<U(2), U(Len(fc))>> \o fc
        ELSE <<>>)

\* Message::encoded_len
encoded_len(file) == Len(EncodeFile(file))

RECURSIVE DecodeFileInto(_, _)
DecodeFileInto(bs, acc) ==
    IF Len(bs) < 2 THEN acc
    ELSE IF bs[1] = U(1)
         THEN DecodeFileInto(Drop(bs, 2), [acc EXCEPT !.path = bs[2][2]])
    ELSE IF bs[1] = U(2)
         THEN LET n == bs[2][2]
              IN DecodeFileInto(Drop(bs, 2 + n),
                     [acc EXCEPT !.chunks =
                         Some(DecodeFileChunks(SubSeq(bs, 3, 2 + n)))])
    ELSE DecodeFileInto(Drop(bs, 2), acc)

DecodeFile(bs) == DecodeFileInto(bs, [path |-> "", chunks |-> None])

EncodeFiles(files) ==
    Flatten([i \in 1..Len(files) |->
        LET ef == EncodeFile(files[i]) IN <<U(1), U(Len(ef))>> \o ef])

RECURSIVE DecodeFiles(_)
DecodeFiles(bs) ==
    IF Len(bs) < 2 THEN <<>>
    ELSE IF bs[1] = U(1)
         THEN LET n == bs[2][2]
              IN <<DecodeFile(SubSeq(bs, 3, 2 + n))>>
                 \o DecodeFiles(Drop(bs, 2 + n))
    ELSE DecodeFiles(Drop(bs, 2))

EncodeCheckpoint(ck) ==
    IF ck.chunks.some
    THEN LET fc == EncodeFileChunks(ck.chunks.ids)
         IN <<U(1), U(Len(fc))>> \o fc
    ELSE <<>>

RECURSIVE DecodeCheckpointInto(_, _)
DecodeCheckpointInto(bs, acc) ==
    IF Len(bs) < 2 THEN acc
    ELSE IF bs[1] = U(1)
         THEN LET n == bs[2][2]
              IN DecodeCheckpointInto(Drop(bs, 2 + n),
                     [chunks |-> Some(DecodeFileChunks(SubSeq(bs, 3, 2 + n)))])
    ELSE DecodeCheckpointInto(Drop(bs, 2), acc)

DecodeCheckpoint(bs) == DecodeCheckpointInto(bs, [chunks |-> None])

\* ------------------------------------------------------------------ state
VARIABLES
    blobs,      \* the Operator's objects: object path -> content
    index,      \* per Fs, the rows of table files in rowid order
    file,       \* the File handles: fields of the struct and the call in flight
    ckpt,       \* per Fs, the Fs::commit call in flight
    ld,         \* per Fs, the Fs::load call in flight
    uuid,       \* checkpoint names generated so far
    ret,        \* what the call that returned in the last step returned
    chunk_ret,  \* the write_chunk call that returned in the last step, if any
    puts,       \* history: per object path, the op.write calls that stored it
    raced,      \* history: chunk ids on which two write_chunk calls overlapped
    content,    \* history: per committed (fs, path), the bytes its handle took
    snap        \* history: per checkpoint name, the rows its commit listed

vars == <<blobs, index, file, ckpt, ld, uuid, ret, chunk_ret, puts,
          raced, content, snap>>

Handles == 1..MaxHandles

FreeHandle ==
    [st |-> "free", fs |-> 0, path |-> "", chunks |-> <<>>, origin |-> "",
     wc |-> <<>>, size |-> 0, pend |-> <<>>, rest |-> <<>>,
     nfrags |-> 0, written |-> <<>>, streamed |-> <<>>, uploaded |-> <<>>,
     viaSink |-> FALSE, sinkOk |-> FALSE]

IdleCommit ==
    [st |-> "idle", rows |-> <<>>, files |-> <<>>, size |-> 0,
     chunk_ids |-> <<>>, wc |-> <<>>, listed |-> <<>>]

IdleLoad ==
    [st |-> "idle", ids |-> <<>>, name |-> 0, fresh |-> FALSE,
     before |-> <<>>, alone |-> FALSE]

\* what a load call reports: the checkpoint name and, as history, the index
\* at the call and whether a commit_file ran on the Fs during the call
LoadVal(name, fresh, before, alone) ==
    [name |-> name, fresh |-> fresh, before |-> before, alone |-> alone]

Ret(op, f, p, res, val) ==
    [op |-> op, fs |-> f, path |-> p, h |-> 0, res |-> res, val |-> val]

\* the same for a call on File handle h
RetOf(op, h, res, val) ==
    [op |-> op, fs |-> file[h].fs, path |-> file[h].path, h |-> h,
     res |-> res, val |-> val]

NoRet == Ret("none", 0, "", "", <<>>)

\* Fs::new: an empty table files; the Operator holds nothing yet.
Init ==
    /\ blobs = <<>>
    /\ index = [f \in FsIds |-> <<>>]
    /\ file = [h \in Handles |-> FreeHandle]
    /\ ckpt = [f \in FsIds |-> IdleCommit]
    /\ ld = [f \in FsIds |-> IdleLoad]
    /\ uuid = 0
    /\ ret = NoRet
    /\ chunk_ret = <<>>
    /\ puts = <<>>
    /\ raced = {}
    /\ content = <<>>
    /\ snap = <<>>

\* ------------------------------------------------------------- the index
IndexPaths(f) == {index[f][i].path : i \in 1..Len(index[f])}

Row(f, p) == index[f][CHOOSE i \in 1..Len(index[f]) : index[f][i].path = p]

\* SELECT path FROM files WHERE path = ?
check_file(f, p) == p \in IndexPaths(f)

\* SELECT * FROM files, each record decoded into a File
list_files(f) ==
    [i \in 1..Len(index[f]) |->
        [path |-> index[f][i].path,
         chunks |-> DecodeFileChunks(index[f][i].chunks)]]

\* the table without its PRIMARY KEY
InsertOkNoKey(f, rows) == rows # <<>>

\* INSERT INTO files (path, chunks) VALUES ...: one statement, rejected as a
\* whole when a path breaks the PRIMARY KEY (or when there are no rows).
InsertOk(f, rows) ==
    /\ rows # <<>>
    /\ \A i \in 1..Len(rows) : rows[i].path \notin IndexPaths(f)
    /\ \A i, j \in 1..Len(rows) : rows[i].path = rows[j].path => i = j

\* ------------------------------------------------------------ chunk store
Exists(path) == path \in DOMAIN blobs

\* op.write in append mode
StoredAppended(path, bs) ==
    (path :> (IF path \in DOMAIN blobs THEN blobs[path] \o bs ELSE bs)) @@ blobs

\* op.write: create or replace
Stored(path, bs) == (path :> bs) @@ blobs

Counted(path) ==
    (path :> (IF path \in DOMAIN puts THEN puts[path] + 1 ELSE 1)) @@ puts

\* write_chunk without the exists check
HitNever(bs) == FALSE

\* write_chunk with the exists check inverted away: no write is issued
HitAlways(bs) == TRUE

\* write_chunk, up to the answer of op.exists: TRUE when the write is skipped
Hit(bs) == Exists(chunk_path(chunk_id(bs)))

\* the write_chunk calls suspended between op.exists and op.write
Pending ==
    {chunk_id(file[h].wc) : h \in {k \in Handles :
        file[k].st \in {"write_put", "sink_put", "sink_end_put"}}}
    \cup {chunk_id(ckpt[f].wc) : f \in {g \in FsIds :
        ckpt[g].st \in {"flush_put", "final_put"}}}

Overlapped(bs) ==
    IF chunk_id(bs) \in Pending THEN raced \cup {chunk_id(bs)} ELSE raced

ChunkRet(bs) == <<[bs |-> bs, id |-> chunk_id(bs)]>>

read_chunk(id) ==
    IF Exists(chunk_path(id))
    THEN [ok |-> TRUE, bs |-> blobs[chunk_path(id)]]
    ELSE [ok |-> FALSE, bs |-> <<>>]

\* File::read over File::stream: the chunks in order, the first error wins
read(chunks) ==
    IF \A i \in 1..Len(chunks) : read_chunk(chunks[i]).ok
    THEN [ok |-> TRUE,
          bs |-> Flatten([i \in 1..Len(chunks) |-> read_chunk(chunks[i]).bs])]
    ELSE [ok |-> FALSE, bs |-> <<>>]

\* ------------------------------------------------------------ Fs: handles
HasFree == \E h \in Handles : file[h].st = "free"
NewSlot == CHOOSE h \in Handles :
    file[h].st = "free" /\ \A k \in Handles : file[k].st = "free" => h <= k

\* create_file without its SELECT
PathTakenNever(f, p) == FALSE

\* the answer of the SELECT in create_file
PathTaken(f, p) == p \in IndexPaths(f)

CreateFile(f, p) ==
    /\ IF PathTaken(f, p)
       THEN /\ file' = file
            /\ ret' = Ret("create_file", f, p, "AlreadyExists", <<>>)
       ELSE /\ HasFree
            /\ file' = [file EXCEPT ![NewSlot] =
                   [FreeHandle EXCEPT !.st = "idle", !.fs = f, !.path = p,
                                      !.origin = "create"]]
            /\ ret' = [Ret("create_file", f, p, "ok", <<>>) EXCEPT
                             !.h = NewSlot]
    /\ chunk_ret' = <<>>
    /\ UNCHANGED <<blobs, index, ckpt, ld, uuid, puts, raced, content,
                   snap>>

OpenFile(f, p) ==
    /\ IF p \in IndexPaths(f)
       THEN /\ HasFree
            /\ file' = [file EXCEPT ![NewSlot] =
                   [FreeHandle EXCEPT !.st = "idle", !.fs = f, !.path = p,
                       !.origin = "open",
                       !.chunks = DecodeFileChunks(Row(f, p).chunks)]]
            /\ ret' = [Ret("open_file", f, p, "ok", <<>>) EXCEPT
                             !.h = NewSlot]
       ELSE /\ file' = file
            /\ ret' = Ret("open_file", f, p, "None", <<>>)
    /\ chunk_ret' = <<>>
    /\ UNCHANGED <<blobs, index, ckpt, ld, uuid, puts, raced, content,
                   snap>>

CheckFile(f, p) ==
    /\ ret' = Ret("check_file", f, p, "ok", check_file(f, p))
    /\ chunk_ret' = <<>>
    /\ UNCHANGED <<blobs, index, file, ckpt, ld, uuid, puts, raced,
                   content, snap>>

\* ------------------------------------------------------------ File::write
RECURSIVE SumChunks(_)
SumChunks(S) ==
    IF S = {} THEN 0
    ELSE LET h == CHOOSE x \in S : TRUE
         IN Len(file[h].chunks) + (IF file[h].st = "write_put" THEN 1 ELSE 0)
            + SumChunks(S \ {h})

\* the chunk ids the handles hold, the ones being written included
HeldChunks == SumChunks(Handles)

\* self.chunks.insert(0, chunk_id)
PushedFront(chunks, id) == <<id>> \o chunks

\* self.chunks.push(chunk_id)
Pushed(chunks, id) == Append(chunks, id)

Write(h, bs) ==
    /\ file[h].st = "idle"
    /\ HeldChunks < MaxChunks
    /\ IF Hit(bs)
       THEN /\ file' = [file EXCEPT ![h] = [@ EXCEPT
                   !.chunks = Pushed(@, chunk_id(bs)),
                   !.written = @ \o bs]]
            /\ ret' = RetOf("write", h, "ok", <<>>)
            /\ chunk_ret' = ChunkRet(bs)
            /\ raced' = raced
       ELSE /\ file' = [file EXCEPT ![h] = [@ EXCEPT
                   !.st = "write_put", !.wc = bs]]
            /\ ret' = NoRet
            /\ chunk_ret' = <<>>
            /\ raced' = Overlapped(bs)
    /\ UNCHANGED <<blobs, index, ckpt, ld, uuid, puts, content, snap>>

WritePut(h) ==
    /\ file[h].st = "write_put"
    /\ blobs' = Stored(chunk_path(chunk_id(file[h].wc)), file[h].wc)
    /\ puts' = Counted(chunk_path(chunk_id(file[h].wc)))
    /\ file' = [file EXCEPT ![h] = [@ EXCEPT
           !.st = "idle", !.wc = <<>>,
           !.chunks = Pushed(@, chunk_id(file[h].wc)),
           !.written = @ \o file[h].wc]]
    /\ ret' = RetOf("write", h, "ok", <<>>)
    /\ chunk_ret' = ChunkRet(file[h].wc)
    /\ UNCHANGED <<index, ckpt, ld, uuid, raced, content, snap>>

\* op.write returns an error, or the caller drops the future: `?` returns
\* before the push.
WriteFail(h) ==
    /\ file[h].st = "write_put"
    /\ file' = [file EXCEPT ![h] = [@ EXCEPT !.st = "idle", !.wc = <<>>]]
    /\ ret' = RetOf("write", h, "err", <<>>)
    /\ chunk_ret' = <<>>
    /\ UNCHANGED <<blobs, index, ckpt, ld, uuid, puts, raced, content,
                   snap>>

\* ----------------------------------------------------------- File::commit
\* the row of a commit_file that gives an empty file the chunk of no bytes
commit_file_row_padded(p, chunk_ids) ==
    [path |-> p,
     chunks |-> EncodeFileChunks(IF chunk_ids = <<>>
                                 THEN <<chunk_id(<<>>)>> ELSE chunk_ids)]

\* the row of a commit_file that binds the root path
commit_file_row_root(p, chunk_ids) ==
    [path |-> "", chunks |-> EncodeFileChunks(chunk_ids)]

\* the row of a commit_file that binds an empty FileChunks
commit_file_row_empty(p, chunk_ids) ==
    [path |-> p, chunks |-> EncodeFileChunks(<<>>)]

\* the row commit_file binds: the path and the encoded FileChunks
commit_file_row(p, chunk_ids) ==
    [path |-> p, chunks |-> EncodeFileChunks(chunk_ids)]

FileCommit(h) ==
    /\ file[h].st = "idle"
    /\ LET f == file[h].fs
           p == file[h].path
           row == commit_file_row(p, file[h].chunks)
       IN IF InsertOk(f, <<row>>)
          THEN /\ index' = [index EXCEPT ![f] = Append(@, row)]
               /\ content' = (<<f, p>> :>
                      [bytes |-> file[h].written \o file[h].streamed,
                       chunks |-> file[h].chunks,
                       sinkOk |-> file[h].sinkOk,
                       uploaded |-> file[h].uploaded]) @@ content
               /\ ld' = [ld EXCEPT ![f].fresh = FALSE, ![f].alone = FALSE]
               /\ ret' = RetOf("commit_file", h, "ok", <<>>)
          ELSE /\ index' = index
               /\ content' = content
               /\ ld' = ld
               /\ ret' = RetOf("commit_file", h, "AlreadyExists", <<>>)
    /\ chunk_ret' = <<>>
    /\ UNCHANGED <<blobs, file, ckpt, uuid, puts, raced, snap>>

\* ------------------------------------------------------------- File::read
Read(h) ==
    /\ file[h].st = "idle"
    /\ LET r == read(file[h].chunks)
       IN ret' = RetOf("read", h, IF r.ok THEN "ok" ELSE "NotFound", r.bs)
    /\ chunk_ret' = <<>>
    /\ UNCHANGED <<blobs, index, file, ckpt, ld, uuid, puts, raced,
                   content, snap>>

\* ------------------------------------------------------------- File::sink
\* size + bs.len() < DEFAULT_CHUNK_SIZE
sink_fits(size, n) == size + n < DEFAULT_CHUNK_SIZE

\* the value of size after the chunk is uploaded
sink_size_after(size, n, consume_size) ==
    IF consume_size < n THEN size + (n - consume_size) ELSE 0

\* the locals after write_chunk has returned inside the loop
SinkResumed(hr, up) ==
    [hr EXCEPT !.st = "sink", !.wc = <<>>,
               !.uploaded = Append(@, up),
               !.pend = hr.rest, !.rest = <<>>]

SinkCall(h) ==
    /\ file[h].st = "idle"
    /\ ~file[h].viaSink
    /\ file' = [file EXCEPT ![h] = [@ EXCEPT
           !.st = "sink", !.size = 0, !.pend = <<>>, !.nfrags = 0,
           !.viaSink = TRUE]]
    /\ ret' = NoRet
    /\ chunk_ret' = <<>>
    /\ UNCHANGED <<blobs, index, ckpt, ld, uuid, puts, raced, content, snap>>

\* one turn of the while loop: the stream yields Ok(bs), bs = vec![v; n]
SinkNext(h, v, n) ==
    /\ file[h].st = "sink"
    /\ file[h].nfrags < MaxFrags
    /\ LET hr == file[h]
           bs == Vec(v, n)
           got == [hr EXCEPT !.nfrags = @ + 1, !.streamed = @ \o bs]
       IN IF sink_fits(hr.size, n)
          THEN /\ file' = [file EXCEPT ![h] = [got EXCEPT
                      !.size = @ + n, !.pend = @ \o bs]]
               /\ chunk_ret' = <<>>
               /\ raced' = raced
          ELSE IF hr.size > DEFAULT_CHUNK_SIZE
          \* DEFAULT_CHUNK_SIZE - size overflows: a panic in a debug build;
          \* a release build wraps and bs.slice(0..consume_size) panics
          THEN /\ file' = [file EXCEPT ![h] = [got EXCEPT !.st = "panicked"]]
               /\ chunk_ret' = <<>>
               /\ raced' = raced
          ELSE LET consume_size == DEFAULT_CHUNK_SIZE - hr.size
                   up == hr.pend \o Take(bs, consume_size)
                   cont == [got EXCEPT
                       !.size = sink_size_after(hr.size, n, consume_size),
                       !.rest = Drop(bs, consume_size)]
               IN IF Hit(up)
                  THEN /\ file' = [file EXCEPT ![h] = SinkResumed(cont, up)]
                       /\ chunk_ret' = ChunkRet(up)
                       /\ raced' = raced
                  ELSE /\ file' = [file EXCEPT ![h] = [cont EXCEPT
                              !.st = "sink_put", !.wc = up]]
                       /\ chunk_ret' = <<>>
                       /\ raced' = Overlapped(up)
    /\ ret' = NoRet
    /\ UNCHANGED <<blobs, index, ckpt, ld, uuid, puts, content, snap>>

SinkPut(h) ==
    /\ file[h].st = "sink_put"
    /\ blobs' = Stored(chunk_path(chunk_id(file[h].wc)), file[h].wc)
    /\ puts' = Counted(chunk_path(chunk_id(file[h].wc)))
    /\ file' = [file EXCEPT ![h] = SinkResumed(file[h], file[h].wc)]
    /\ ret' = NoRet
    /\ chunk_ret' = ChunkRet(file[h].wc)
    /\ UNCHANGED <<index, ckpt, ld, uuid, raced, content, snap>>

\* the locals are dropped when sink returns
SinkReturned(hr) ==
    [hr EXCEPT !.st = "idle", !.wc = <<>>, !.size = 0, !.pend = <<>>,
               !.rest = <<>>]

\* the stream ends: the rest is uploaded when size > 0
SinkEnd(h) ==
    /\ file[h].st = "sink"
    /\ LET hr == file[h]
       IN IF hr.size > 0
          THEN IF Hit(hr.pend)
               THEN /\ file' = [file EXCEPT ![h] =
                          SinkReturned([hr EXCEPT
                              !.sinkOk = TRUE,
                              !.uploaded = Append(@, hr.pend)])]
                    /\ ret' = RetOf("sink", h, "ok", <<>>)
                    /\ chunk_ret' = ChunkRet(hr.pend)
                    /\ raced' = raced
               ELSE /\ file' = [file EXCEPT ![h] = [hr EXCEPT
                          !.st = "sink_end_put", !.wc = hr.pend]]
                    /\ ret' = NoRet
                    /\ chunk_ret' = <<>>
                    /\ raced' = Overlapped(hr.pend)
          ELSE /\ file' = [file EXCEPT ![h] =
                      SinkReturned([hr EXCEPT !.sinkOk = TRUE])]
               /\ ret' = RetOf("sink", h, "ok", <<>>)
               /\ chunk_ret' = <<>>
               /\ raced' = raced
    /\ UNCHANGED <<blobs, index, ckpt, ld, uuid, puts, content, snap>>

SinkEndPut(h) ==
    /\ file[h].st = "sink_end_put"
    /\ blobs' = Stored(chunk_path(chunk_id(file[h].wc)), file[h].wc)
    /\ puts' = Counted(chunk_path(chunk_id(file[h].wc)))
    /\ file' = [file EXCEPT ![h] =
           SinkReturned([file[h] EXCEPT !.sinkOk = TRUE,
                                        !.uploaded = Append(@, file[h].wc)])]
    /\ ret' = RetOf("sink", h, "ok", <<>>)
    /\ chunk_ret' = ChunkRet(file[h].wc)
    /\ UNCHANGED <<index, ckpt, ld, uuid, raced, content, snap>>

\* the stream yields Err, a BlobStore call returns an error, or the caller
\* drops the future at one of these suspension points
SinkFail(h) ==
    /\ file[h].st \in {"sink", "sink_put", "sink_end_put"}
    /\ file' = [file EXCEPT ![h] =
           SinkReturned([file[h] EXCEPT !.streamed = <<>>])]
    /\ ret' = RetOf("sink", h, "err", <<>>)
    /\ chunk_ret' = <<>>
    /\ UNCHANGED <<blobs, index, ckpt, ld, uuid, puts, raced, content, snap>>

\* ------------------------------------------------------------- Fs::commit
\* size < 8 * 1024 * 1024: more files fit in this files-blob
batch_open(size) == size < FILES_BLOB_THRESHOLD

\* the value of size when the loop goes on after a files-blob is written
size_after_flush(size) == size

\* specs::File { path, chunks: None }
commit_entry_no_chunks(record) == [path |-> record.path, chunks |-> None]

\* specs::File { path, chunks: Some(FileChunks { ids: chunks }) }
commit_entry(record) ==
    [path |-> record.path, chunks |-> Some(record.chunks)]

CommitCall(f) ==
    /\ ckpt[f].st = "idle"
    /\ uuid < MaxCommits
    /\ ckpt' = [ckpt EXCEPT ![f] = [IdleCommit EXCEPT
           !.st = "loop", !.rows = list_files(f), !.listed = index[f]]]
    /\ ret' = NoRet
    /\ chunk_ret' = <<>>
    /\ UNCHANGED <<blobs, index, file, ld, uuid, puts, raced, content, snap>>

\* one turn of the while loop: file_stream.try_next() yields a record
CommitNext(f) ==
    /\ ckpt[f].st = "loop"
    /\ ckpt[f].rows # <<>>
    /\ LET c == ckpt[f]
           record == Head(c.rows)
           entry == commit_entry(record)
           size == c.size + encoded_len(entry)
           files == Append(c.files, entry)
           got == [c EXCEPT !.rows = Tail(@)]
       IN IF batch_open(size)
          THEN /\ ckpt' = [ckpt EXCEPT ![f] = [got EXCEPT
                      !.size = size, !.files = files]]
               /\ chunk_ret' = <<>>
               /\ raced' = raced
          ELSE LET bs == EncodeFiles(files)
                   cont == [got EXCEPT !.size = size_after_flush(size),
                                       !.files = <<>>]
               IN IF Hit(bs)
                  THEN /\ ckpt' = [ckpt EXCEPT ![f] = [cont EXCEPT
                              !.chunk_ids = Append(@, chunk_id(bs))]]
                       /\ chunk_ret' = ChunkRet(bs)
                       /\ raced' = raced
                  ELSE /\ ckpt' = [ckpt EXCEPT ![f] = [cont EXCEPT
                              !.st = "flush_put", !.wc = bs]]
                       /\ chunk_ret' = <<>>
                       /\ raced' = Overlapped(bs)
    /\ ret' = NoRet
    /\ UNCHANGED <<blobs, index, file, ld, uuid, puts, content, snap>>

\* the stream has ended: the last batch is written when it is not empty
CommitLast(f) ==
    /\ ckpt[f].st = "loop"
    /\ ckpt[f].rows = <<>>
    /\ LET c == ckpt[f]
           bs == EncodeFiles(c.files)
       IN IF c.files = <<>>
          THEN /\ ckpt' = [ckpt EXCEPT ![f].st = "save"]
               /\ chunk_ret' = <<>>
               /\ raced' = raced
          ELSE IF Hit(bs)
          THEN /\ ckpt' = [ckpt EXCEPT ![f] = [c EXCEPT
                      !.st = "save", !.files = <<>>,
                      !.chunk_ids = Append(@, chunk_id(bs))]]
               /\ chunk_ret' = ChunkRet(bs)
               /\ raced' = raced
          ELSE /\ ckpt' = [ckpt EXCEPT ![f] = [c EXCEPT
                      !.st = "final_put", !.files = <<>>, !.wc = bs]]
               /\ chunk_ret' = <<>>
               /\ raced' = Overlapped(bs)
    /\ ret' = NoRet
    /\ UNCHANGED <<blobs, index, file, ld, uuid, puts, content, snap>>

CommitPut(f) ==
    /\ ckpt[f].st \in {"flush_put", "final_put"}
    /\ blobs' = Stored(chunk_path(chunk_id(ckpt[f].wc)), ckpt[f].wc)
    /\ puts' = Counted(chunk_path(chunk_id(ckpt[f].wc)))
    /\ ckpt' = [ckpt EXCEPT ![f] = [@ EXCEPT
           !.st = IF ckpt[f].st = "flush_put" THEN "loop" ELSE "save",
           !.wc = <<>>,
           !.chunk_ids = Append(@, chunk_id(ckpt[f].wc))]]
    /\ ret' = NoRet
    /\ chunk_ret' = ChunkRet(ckpt[f].wc)
    /\ UNCHANGED <<index, file, ld, uuid, raced, content, snap>>

\* save_checkpoint: the name is a fresh uuid v7
save_checkpoint_bytes(chunk_ids) ==
    EncodeCheckpoint([chunks |-> Some(chunk_ids)])

CommitSave(f) ==
    /\ ckpt[f].st = "save"
    /\ uuid < MaxCommits
    /\ uuid' = uuid + 1
    /\ blobs' = Stored(checkpoint_path(uuid + 1),
                       save_checkpoint_bytes(ckpt[f].chunk_ids))
    /\ puts' = Counted(checkpoint_path(uuid + 1))
    /\ snap' = ((uuid + 1) :> ckpt[f].listed) @@ snap
    /\ ckpt' = [ckpt EXCEPT ![f] = IdleCommit]
    /\ ret' = Ret("commit", f, "", "ok", uuid + 1)
    /\ chunk_ret' = <<>>
    /\ UNCHANGED <<index, file, ld, raced, content>>

\* a BlobStore call or the stream returns an error, or the caller drops the
\* future at one of these suspension points
CommitFail(f) ==
    /\ ckpt[f].st \in {"loop", "flush_put", "final_put", "save"}
    /\ ckpt' = [ckpt EXCEPT ![f] = IdleCommit]
    /\ ret' = Ret("commit", f, "", "err", 0)
    /\ chunk_ret' = <<>>
    /\ UNCHANGED <<blobs, index, file, ld, uuid, puts, raced, content, snap>>

\* --------------------------------------------------------------- Fs::load
\* the rows of one files-blob, as load binds them
load_rows(bs) ==
    LET files == DecodeFiles(bs)
    IN [i \in 1..Len(files) |->
           [path |-> files[i].path,
            chunks |-> EncodeFileChunks(unwrap_or_default(files[i].chunks))]]

\* the body of the for loop, from the first chunk id on, as far as it runs
\* without suspending: read_chunk, decode, one INSERT statement
LoadCall(f, name) ==
    /\ ld[f].st = "idle"
    /\ IF Exists(checkpoint_path(name))
       THEN LET ck == DecodeCheckpoint(blobs[checkpoint_path(name)])
                ids == unwrap_or_default(ck.chunks)
            IN IF ids = <<>>
               THEN /\ ld' = ld
                    /\ ret' = Ret("load", f, "", "ok",
                           LoadVal(name, index[f] = <<>>, index[f], TRUE))
               ELSE /\ ld' = [ld EXCEPT ![f] =
                           [st |-> "loop", ids |-> ids, name |-> name,
                            fresh |-> index[f] = <<>>,
                            before |-> index[f], alone |-> TRUE]]
                    /\ ret' = NoRet
       ELSE /\ ld' = ld
            /\ ret' = Ret("load", f, "", "NotFound",
                   LoadVal(name, index[f] = <<>>, index[f], TRUE))
    /\ chunk_ret' = <<>>
    /\ UNCHANGED <<blobs, index, file, ckpt, uuid, puts, raced, content, snap>>

\* the report of the load call in flight on f
LoadReturn(f) ==
    LoadVal(ld[f].name, ld[f].fresh, ld[f].before, ld[f].alone)

\* DELETE FROM files before the INSERT
Replaced(old, rows) == rows

\* INSERT INTO files (path, chunks) VALUES ...: the new rows follow the old
Inserted(old, rows) == old \o rows

LoadNext(f) ==
    /\ ld[f].st = "loop"
    /\ LET id == Head(ld[f].ids)
           chunk == read_chunk(id)
           rows == load_rows(chunk.bs)
       IN IF chunk.ok /\ InsertOk(f, rows)
          THEN /\ index' = [index EXCEPT ![f] = Inserted(@, rows)]
               /\ IF Tail(ld[f].ids) = <<>>
                  THEN /\ ld' = [ld EXCEPT ![f] = IdleLoad]
                       /\ ret' = Ret("load", f, "", "ok", LoadReturn(f))
                  ELSE /\ ld' = [ld EXCEPT ![f].ids = Tail(@)]
                       /\ ret' = NoRet
          ELSE /\ index' = index
               /\ ld' = [ld EXCEPT ![f] = IdleLoad]
               /\ ret' = Ret("load", f, "", "PathConflict", LoadReturn(f))
    /\ chunk_ret' = <<>>
    /\ UNCHANGED <<blobs, file, ckpt, uuid, puts, raced, content, snap>>

\* op.read returns an error, or the caller drops the future
LoadFail(f) ==
    /\ ld[f].st = "loop"
    /\ ld' = [ld EXCEPT ![f] = IdleLoad]
    /\ ret' = Ret("load", f, "", "err", LoadReturn(f))
    /\ chunk_ret' = <<>>
    /\ UNCHANGED <<blobs, index, file, ckpt, uuid, puts, raced, content, snap>>

\* ------------------------------------------------------------ properties
\* the entries (path, chunk list) a sequence of rows holds
Entries(rows) ==
    {[path |-> rows[i].path, chunks |-> DecodeFileChunks(rows[i].chunks)] :
        i \in 1..Len(rows)}

\* the chunk list the index of f holds for p
ChunksOf(f, p) == DecodeFileChunks(Row(f, p).chunks)

\* the object of chunk id is in the store and its content hashes to id
Present(id) ==
    Exists(chunk_path(id)) /\ chunk_id(blobs[chunk_path(id)]) = id

\* the handle read in the last step came from open_file and was not written
ReadOfOpened ==
    /\ ret.op = "read"
    /\ file[ret.h].origin = "open"
    /\ file[ret.h].written = <<>>
    /\ ~file[ret.h].viaSink

\* C1: a file written by write(b1), ..., write(bn) and committed is read,
\* through open_file, as b1 ++ ... ++ bn in the order of the writes.
ReadReturnsWrittenBytes ==
    (ReadOfOpened /\ <<ret.fs, ret.path>> \in DOMAIN content
        /\ ~content[<<ret.fs, ret.path>>].sinkOk)
    => (ret.res = "ok" /\ ret.val = content[<<ret.fs, ret.path>>].bytes)

\* C1 witness: an opened file of two different chunks has been read
ReadAfterTwoWrites ==
    /\ ReadOfOpened
    /\ ret.res = "ok"
    /\ Len(file[ret.h].chunks) = 2
    /\ file[ret.h].chunks[1] # file[ret.h].chunks[2]

\* a load that started on an empty index, saw no other insert and met no
\* BlobStore error has returned
FreshLoadReturned ==
    /\ ret.op = "load"
    /\ ret.val.fresh
    /\ ret.res \notin {"err", "NotFound"}

\* C2: load(name) on a fresh Fs succeeds and leaves exactly the entries the
\* index of the committing Fs held when commit() listed it; check_file is
\* true of every one of their paths.
CheckpointRoundTrip ==
    FreshLoadReturned
    => /\ ret.res = "ok"
       /\ Entries(index[ret.fs]) = Entries(snap[ret.val.name])
       /\ \A e \in Entries(snap[ret.val.name]) : check_file(ret.fs, e.path)

\* C2 witness: a checkpoint of two entries, one of them with chunks, loaded
LoadedTwoEntries ==
    /\ FreshLoadReturned
    /\ ret.res = "ok"
    /\ Cardinality(Entries(index[ret.fs])) = 2
    /\ \E e \in Entries(index[ret.fs]) : e.chunks # <<>>

\* the chunk ids of the chunks a committed handle uploaded through sink
UploadedIds(k) ==
    [i \in 1..Len(content[k].uploaded) |-> chunk_id(content[k].uploaded[i])]

\* C3: after sink and commit, the entry lists the ids of the chunks sink
\* uploaded, in order, and the file reads as the stream's fragments.
SinkCommitListsUploads ==
    /\ \A k \in DOMAIN content :
           content[k].sinkOk => ChunksOf(k[1], k[2]) = UploadedIds(k)
    /\ (ReadOfOpened /\ <<ret.fs, ret.path>> \in DOMAIN content
           /\ content[<<ret.fs, ret.path>>].sinkOk)
       => ret.val = content[<<ret.fs, ret.path>>].bytes

\* C4: when sink has returned, every chunk it uploaded but the last is
\* DEFAULT_CHUNK_SIZE long and the last is 1..DEFAULT_CHUNK_SIZE long.
SinkChunksAligned ==
    \A h \in Handles :
        file[h].sinkOk =>
            \A i \in 1..Len(file[h].uploaded) :
                IF i < Len(file[h].uploaded)
                THEN Len(file[h].uploaded[i]) = DEFAULT_CHUNK_SIZE
                ELSE Len(file[h].uploaded[i]) \in 1..DEFAULT_CHUNK_SIZE

\* create_file has returned for a path an earlier create_file handle holds
SecondCreateReturned ==
    /\ ret.op = "create_file"
    /\ \E h \in Handles :
           /\ h # ret.h
           /\ file[h].origin = "create"
           /\ file[h].fs = ret.fs
           /\ file[h].path = ret.path

\* C5 as claimed: the second create_file(p) fails, committed or not.
SecondCreateFails == SecondCreateReturned => ret.res = "AlreadyExists"

\* C5 as amended: create_file(p) fails with AlreadyExists exactly when the
\* index holds an entry for p, that is once a handle for p has committed.
CreateFailsIffCommitted ==
    ret.op = "create_file"
    => (ret.res = "AlreadyExists" <=> check_file(ret.fs, ret.path))

\* C5 witness: a second create_file after the first handle has committed
SecondCreateAfterCommit ==
    /\ SecondCreateReturned
    /\ check_file(ret.fs, ret.path)
    /\ ret.res = "AlreadyExists"

UniquePaths ==
    \A f \in FsIds : \A i, j \in 1..Len(index[f]) :
        index[f][i].path = index[f][j].path => i = j

ConflictRejected ==
    (ret'.op = "commit_file" /\ check_file(ret'.fs, ret'.path))
    => (ret'.res = "AlreadyExists" /\ index' = index)

\* C6: the index never holds two entries of one path, and a commit_file on a
\* path the index holds fails and leaves the index as it was.
OneEntryPerPath == []UniquePaths /\ [][ConflictRejected]_vars

\* C6 witness: commit_file has failed on a path that load had inserted
CommitAfterLoadRejected ==
    /\ ret.op = "commit_file"
    /\ ret.res = "AlreadyExists"
    /\ <<ret.fs, ret.path>> \notin DOMAIN content

\* C7: when write_chunk(b) returns id, read_chunk(id) is b, and every object
\* of the data prefix holding b is the one named by id.
WrittenChunkReadsBack ==
    chunk_ret # <<>>
    => /\ read_chunk(chunk_ret[1].id) = [ok |-> TRUE, bs |-> chunk_ret[1].bs]
       /\ \A p \in DOMAIN blobs :
              (p[1] = "data" /\ blobs[p] = chunk_ret[1].bs)
              => p = chunk_path(chunk_ret[1].id)

\* C7 witness: write_chunk has returned for bytes whose chunk was there
ChunkWrittenTwice ==
    /\ chunk_ret # <<>>
    /\ \E h \in Handles :
           /\ Len(file[h].chunks) >= 2
           /\ file[h].chunks[1] = chunk_ret[1].id
           /\ file[h].chunks[Len(file[h].chunks)] = chunk_ret[1].id

\* C8: a content is stored by more than one op.write only when two
\* write_chunk calls on it overlapped between op.exists and op.write.
OnePutPerContent ==
    \A p \in DOMAIN puts :
        p[1] = "data" => (puts[p] <= 1 \/ p[2] \in raced)

\* C8 witness: two handles hold a chunk that was stored once, with no race
SharedChunkStoredOnce ==
    \E h1, h2 \in Handles :
        /\ h1 # h2
        /\ file[h1].chunks # <<>>
        /\ file[h2].chunks # <<>>
        /\ file[h1].chunks[1] = file[h2].chunks[1]
        /\ puts[chunk_path(file[h1].chunks[1])] = 1
        /\ file[h1].chunks[1] \notin raced

\* the chunk ids a checkpoint object lists
CheckpointIds(p) == unwrap_or_default(DecodeCheckpoint(blobs[p]).chunks)

\* C9: every files-blob id a stored checkpoint lists, and every data chunk id
\* in the entries of those files-blobs, names a stored object whose content
\* hashes to the id.
CheckpointRefsStored ==
    \A p \in DOMAIN blobs :
        p[1] = "logs" =>
            \A i \in 1..Len(CheckpointIds(p)) :
                /\ Present(CheckpointIds(p)[i])
                /\ LET files == DecodeFiles(read_chunk(CheckpointIds(p)[i]).bs)
                   IN \A j \in 1..Len(files) :
                          \A k \in 1..Len(unwrap_or_default(files[j].chunks)) :
                              Present(unwrap_or_default(files[j].chunks)[k])

\* C9 witness: a checkpoint of two files-blobs, with an entry of two chunks
CheckpointOfTwoBlobs ==
    \E p \in DOMAIN blobs :
        /\ p[1] = "logs"
        /\ Len(CheckpointIds(p)) = 2
        /\ \E i \in 1..2 :
               LET files == DecodeFiles(read_chunk(CheckpointIds(p)[i]).bs)
               IN \E j \in 1..Len(files) :
                      Len(unwrap_or_default(files[j].chunks)) = 2

\* C10: a committed file that took 1..DEFAULT_CHUNK_SIZE bytes through write
\* calls has a chunk list of exactly one element.
SmallFileHasOneChunk ==
    \A k \in DOMAIN content :
        (~content[k].sinkOk /\ Len(content[k].bytes) \in 1..DEFAULT_CHUNK_SIZE)
        => Len(ChunksOf(k[1], k[2])) = 1

\* two checkpoints whose commits listed the same rows
SameListing(n1, n2) ==
    /\ n1 \in DOMAIN snap
    /\ n2 \in DOMAIN snap
    /\ n1 # n2
    /\ snap[n1] = snap[n2]

RepeatSharesBlobs ==
    \A n1, n2 \in 1..MaxCommits :
        SameListing(n1, n2) =>
            LET ids == CheckpointIds(checkpoint_path(n1))
            IN /\ ids = CheckpointIds(checkpoint_path(n2))
               /\ \A i \in 1..Len(ids) : puts[chunk_path(ids[i])] = 1

FreshName ==
    (ret'.op = "commit" /\ ret'.res = "ok")
    => (ret'.val \notin DOMAIN snap /\ ~Exists(checkpoint_path(ret'.val)))

\* C11: two commit() calls over an unchanged index return two different
\* checkpoint names, their Checkpoint records list the same files-blob ids in
\* the same order, and every one of those files-blobs was written only once.
CommitIdempotent == []RepeatSharesBlobs /\ [][FreshName]_vars

\* C11 witness: the second commit over an index of two entries has returned
CommittedTwiceUnchanged ==
    /\ ret.op = "commit"
    /\ ret.res = "ok"
    /\ ret.val = 2
    /\ SameListing(1, 2)
    /\ Len(snap[1]) = 2
    /\ CheckpointIds(checkpoint_path(2)) # <<>>

DataPaths == {p \in DOMAIN blobs : p[1] = "data"}

HashNamed == \A p \in DataPaths : chunk_id(blobs[p]) = p[2]

ChunkKept ==
    \A p \in DataPaths : p \in DOMAIN blobs' /\ blobs'[p] = blobs[p]

\* C12: under every interleaving of write_chunk calls, two calls that both
\* passed the exists check included, the content stored under a chunk id never
\* changes after its first write and always hashes to the id.
ChunksImmutable == []HashNamed /\ [][ChunkKept]_vars

\* C12 witness: two overlapping write_chunk calls have both stored one chunk
ChunkStoredTwice ==
    \E p \in DataPaths : puts[p] = 2 /\ p[2] \in raced

\* the entry a successful commit_file stored for k = (fs, path)
Committed(k) == [path |-> k[2], chunks |-> content[k].chunks]

\* C13: once commit_file(p, cs) has succeeded on an Fs, check_file(p) is true,
\* list_files holds (p, cs) and every open_file(p) returns a file of path p
\* and chunk list cs, whatever commits and loads have followed.
CommittedStaysVisible ==
    /\ \A k \in DOMAIN content :
           /\ check_file(k[1], k[2])
           /\ \E i \in 1..Len(list_files(k[1])) :
                  list_files(k[1])[i] = Committed(k)
    /\ (ret.op = "open_file" /\ <<ret.fs, ret.path>> \in DOMAIN content)
       => /\ ret.res = "ok"
          /\ file[ret.h].path = ret.path
          /\ file[ret.h].chunks = content[<<ret.fs, ret.path>>].chunks

\* C13 witness: a file committed with a chunk has been opened after a
\* checkpoint was written
OpenedCommitted ==
    /\ ret.op = "open_file"
    /\ ret.res = "ok"
    /\ <<ret.fs, ret.path>> \in DOMAIN content
    /\ file[ret.h].chunks # <<>>
    /\ Exists(checkpoint_path(1))

\* the files committed without a byte written
EmptyFiles == {k \in DOMAIN content : content[k].bytes = <<>>}

EmptyFileEntry ==
    /\ \A k \in EmptyFiles :
           /\ ChunksOf(k[1], k[2]) = <<>>
           /\ read(ChunksOf(k[1], k[2])) = [ok |-> TRUE, bs |-> <<>>]
    /\ \A k \in EmptyFiles : \A f \in FsIds :
           (k[2] \in IndexPaths(f) /\ <<f, k[2]>> \notin DOMAIN content)
           => ChunksOf(f, k[2]) = <<>>

NoStoreWrite ==
    ret'.op \in {"create_file", "commit_file"}
    => (blobs' = blobs /\ puts' = puts)

\* C14: a file committed without a write has an entry with an empty chunk
\* list and reads as zero bytes, creating and committing it write nothing to
\* the BlobStore, and the entry a fresh Fs loads for it from a checkpoint has
\* an empty chunk list too.
EmptyFileStaysEmpty == []EmptyFileEntry /\ [][NoStoreWrite]_vars

\* C14 witness: a fresh Fs has loaded the entry of an empty file
EmptyFileLoaded ==
    /\ FreshLoadReturned
    /\ ret.res = "ok"
    /\ \E k \in EmptyFiles :
           /\ k[1] # ret.fs
           /\ k[2] \in IndexPaths(ret.fs)
           /\ ChunksOf(ret.fs, k[2]) = <<>>

\* the sum of the encoded sizes of the entries of a batch
RECURSIVE BatchSize(_)
BatchSize(files) ==
    IF files = <<>> THEN 0
    ELSE encoded_len(Head(files)) + BatchSize(Tail(files))

\* C15: in commit(), a flush resets the batch and its size counter, so the
\* counter is the encoded size of the batch at every turn of the loop, and
\* every files-blob of a checkpoint but the last holds entries whose encoded
\* sizes sum to FILES_BLOB_THRESHOLD or more.
FlushResetsCounter ==
    /\ \A f \in FsIds :
           ckpt[f].st = "loop" => ckpt[f].size = BatchSize(ckpt[f].files)
    /\ \A p \in DOMAIN blobs :
           p[1] = "logs" =>
               \A i \in 1..(Len(CheckpointIds(p)) - 1) :
                   BatchSize(DecodeFiles(read_chunk(CheckpointIds(p)[i]).bs))
                       >= FILES_BLOB_THRESHOLD

\* C16: load inserts all entries of all files-blobs of the checkpoint or, when
\* it fails, leaves the index exactly as it was before the call.
LoadAllOrNothing ==
    (ret.op = "load" /\ ret.val.alone)
    => IF ret.res = "ok"
       THEN Entries(index[ret.fs]) =
                Entries(ret.val.before) \cup Entries(snap[ret.val.name])
       ELSE index[ret.fs] = ret.val.before

PathsOf(rows) == {rows[i].path : i \in 1..Len(rows)}

\* a load has returned that met no BlobStore error and no commit_file, on an
\* index whose paths the checkpoint does not hold
DisjointLoadReturned ==
    /\ ret.op = "load"
    /\ ret.res \notin {"err", "NotFound"}
    /\ ret.val.alone
    /\ PathsOf(ret.val.before) \cap PathsOf(snap[ret.val.name]) = {}

\* C17: load on an index whose paths are disjoint from the checkpoint's
\* succeeds, leaves every row that was there unchanged and in place, and the
\* index then holds exactly the previous entries and the checkpoint's.
LoadMerges ==
    DisjointLoadReturned
    => /\ ret.res = "ok"
       /\ Len(index[ret.fs]) >= Len(ret.val.before)
       /\ SubSeq(index[ret.fs], 1, Len(ret.val.before)) = ret.val.before
       /\ Entries(index[ret.fs]) =
              Entries(ret.val.before) \cup Entries(snap[ret.val.name])

\* C17 witness: a checkpoint with an entry has been loaded into an index that
\* held an entry of its own
LoadedIntoOwnEntries ==
    /\ DisjointLoadReturned
    /\ ret.res = "ok"
    /\ ret.val.before # <<>>
    /\ snap[ret.val.name] # <<>>

\* every visible path is the path of a handle whose commit succeeded
VisibleIsCommitted ==
    \A f \in FsIds : \A p \in IndexPaths(f) : <<f, p>> \in DOMAIN content

\* a step that changes an index is the return of a successful File::commit
\* and adds the entry of that handle
OnlyCommitInserts ==
    index' # index
    => /\ ret'.op = "commit_file"
       /\ ret'.res = "ok"
       /\ \A f \in FsIds : f # ret'.fs => index'[f] = index[f]
       /\ Len(index'[ret'.fs]) = Len(index[ret'.fs]) + 1
       /\ SubSeq(index'[ret'.fs], 1, Len(index[ret'.fs])) = index[ret'.fs]
       /\ index'[ret'.fs][Len(index'[ret'.fs])].path = ret'.path

\* C18: write and sink never change the index; a path is visible only once
\* the commit of a handle for it has succeeded, and a writer that fails or is
\* abandoned before commit leaves no entry.
WritersLeaveIndexAlone == []VisibleIsCommitted /\ [][OnlyCommitInserts]_vars

\* C18 witness: a sink has failed after uploading a chunk and its path has no
\* entry
FailedWriterLeftChunk ==
    /\ ret.op = "sink"
    /\ ret.res = "err"
    /\ file[ret.h].uploaded # <<>>
    /\ ~check_file(ret.fs, ret.path)
    /\ \E p \in DOMAIN blobs : p[1] = "data"

\* C19: at every turn of the loop of sink, size is the total length of the
\* fragments pending in the local buffer and is below DEFAULT_CHUNK_SIZE, so
\* DEFAULT_CHUNK_SIZE - size never underflows and sink does not panic.
SinkCounterExact ==
    \A h \in Handles :
        /\ file[h].st # "panicked"
        /\ file[h].st = "sink"
           => /\ file[h].size = Len(file[h].pend)
              /\ file[h].size < DEFAULT_CHUNK_SIZE

\* the stored entry of every committed path is the one its commit stored
WinnerKept ==
    /\ UniquePaths
    /\ \A k \in DOMAIN content : ChunksOf(k[1], k[2]) = content[k].chunks

\* a File::commit on a path succeeds exactly when no commit on it succeeded
\* before, and stores the chunk list of its own handle
FirstCommitWins ==
    ret'.op = "commit_file"
    => IF <<ret'.fs, ret'.path>> \in DOMAIN content
       THEN /\ ret'.res = "AlreadyExists"
            /\ index' = index
            /\ content' = content
       ELSE /\ ret'.res = "ok"
            /\ content'[<<ret'.fs, ret'.path>>].chunks = file[ret'.h].chunks
            /\ [path |-> ret'.path, chunks |-> file[ret'.h].chunks]
                   \in Entries(index'[ret'.fs])

\* C20: of two handles created for one path before either commits, the first
\* to commit succeeds and the other fails, and the entry of the path is the
\* chunk list of the handle whose commit succeeded.
OneOfTwoCommits == []WinnerKept /\ [][FirstCommitWins]_vars

\* C20 witness: the second of two created handles of one path, holding a
\* different chunk list, has failed to commit
SecondHandleRejected ==
    /\ ret.op = "commit_file"
    /\ ret.res = "AlreadyExists"
    /\ file[ret.h].origin = "create"
    /\ file[ret.h].chunks # ChunksOf(ret.fs, ret.path)
    /\ \E h \in Handles :
           /\ h # ret.h
           /\ file[h].origin = "create"
           /\ file[h].fs = ret.fs
           /\ file[h].path = ret.path
           /\ file[h].chunks = ChunksOf(ret.fs, ret.path)
           /\ file[h].chunks # <<>>

\* ------------------------------------------------------- specifications
WriteBuffers == {Vec(6, 1), Vec(7, 2)}

\* One Fs and the File handles of one path: create, open, write, commit, read.
Next ==
    \/ CreateFile(1, "a")
    \/ OpenFile(1, "a")
    \/ CheckFile(1, "a")
    \/ \E h \in Handles, bs \in WriteBuffers : Write(h, bs)
    \/ \E h \in Handles : WritePut(h)
    \/ \E h \in Handles : WriteFail(h)
    \/ \E h \in Handles : FileCommit(h)
    \/ \E h \in Handles : Read(h)

Spec == Init /\ [][Next]_vars

\* One handle fed by a stream through sink, committed, opened and read.
NextSink ==
    \/ file[1].st = "free" /\ CreateFile(1, "a")
    \/ OpenFile(1, "a")
    \/ \E h \in Handles : file[h].origin = "create" /\ SinkCall(h)
    \/ \E h \in Handles, v \in ByteValues, n \in 1..MaxFragLen :
           SinkNext(h, v, n)
    \/ \E h \in Handles : SinkPut(h)
    \/ \E h \in Handles : SinkEnd(h)
    \/ \E h \in Handles : SinkEndPut(h)
    \/ \E h \in Handles : SinkFail(h)
    \/ \E h \in Handles : FileCommit(h)
    \/ \E h \in Handles : Read(h)

SpecSink == Init /\ [][NextSink]_vars

\* In the two specifications below a handle is created or opened once the
\* handles before it have committed, and only a handle that has not committed
\* writes.
Settled ==
    \A h \in Handles :
        \/ file[h].st = "free"
        \/ file[h].st = "idle" /\ check_file(file[h].fs, file[h].path)

Unsettled(h) ==
    file[h].st # "free" /\ ~check_file(file[h].fs, file[h].path)

\* Two Fs on one Operator: Fs 1 writes files and checkpoints, and Fs 2, which
\* writes no file of its own, loads them.
NextCkpt ==
    \/ \E p \in Paths : Settled /\ CreateFile(1, p)
    \/ \E p \in Paths : CheckFile(2, p)
    \/ \E h \in Handles : Unsettled(h) /\ Write(h, Vec(6, 1))
    \/ \E h \in Handles : WritePut(h)
    \/ \E h \in Handles : WriteFail(h)
    \/ \E h \in Handles : FileCommit(h)
    \/ CommitCall(1)
    \/ CommitNext(1)
    \/ CommitLast(1)
    \/ CommitPut(1)
    \/ CommitSave(1)
    \/ CommitFail(1)
    \/ \E name \in 1..MaxCommits : LoadCall(2, name)
    \/ LoadNext(2)
    \/ LoadFail(2)

SpecCkpt == Init /\ [][NextCkpt]_vars

\* Two Fs on one Operator: Fs 1 writes the file "a" and checkpoints; Fs 2
\* writes files of its own and loads the checkpoints into its index.
NextMerge ==
    \/ Settled /\ CreateFile(1, "a")
    \/ \E p \in Paths : Settled /\ CreateFile(2, p)
    \/ \E p \in Paths : Settled /\ OpenFile(2, p)
    \/ \E h \in Handles : Unsettled(h) /\ Write(h, Vec(6, 1))
    \/ \E h \in Handles : WritePut(h)
    \/ \E h \in Handles : WriteFail(h)
    \/ \E h \in Handles : FileCommit(h)
    \/ CommitCall(1)
    \/ CommitNext(1)
    \/ CommitLast(1)
    \/ CommitPut(1)
    \/ CommitSave(1)
    \/ CommitFail(1)
    \/ \E name \in 1..MaxCommits : LoadCall(2, name)
    \/ LoadNext(2)
    \/ LoadFail(2)

SpecMerge == Init /\ [][NextMerge]_vars

\* Writers on one Fs: handles from create_file take write and sink calls,
\* complete or fail, and commit.
SinkLens == {3, DEFAULT_CHUNK_SIZE}

Created(h) == file[h].origin = "create"

NextWriter ==
    \/ \E p \in Paths : Settled /\ CreateFile(1, p)
    \/ \E h \in Handles : Created(h) /\ Unsettled(h) /\ Write(h, Vec(6, 1))
    \/ \E h \in Handles : WritePut(h)
    \/ \E h \in Handles : WriteFail(h)
    \/ \E h \in Handles : Created(h) /\ Unsettled(h) /\ SinkCall(h)
    \/ \E h \in Handles : \E n \in SinkLens : SinkNext(h, 6, n)
    \/ \E h \in Handles : SinkPut(h)
    \/ \E h \in Handles : SinkEnd(h)
    \/ \E h \in Handles : SinkEndPut(h)
    \/ \E h \in Handles : SinkFail(h)
    \/ \E h \in Handles : FileCommit(h)

SpecWriter == Init /\ [][NextWriter]_vars
====
